---- MODULE Spec2Model ----
(***************************************************************************)
(* Model of the max553x driver (src/src/lib.rs): the two command encoders, *)
(* the per-variant capability arms of the macros, and the typestate        *)
(* machine of the device handle.  The transport (embedded_hal spi::Write)  *)
(* is the environment: every write call is recorded in `writes` and its    *)
(* outcome (Ok or an error value) is chosen nondeterministically.          *)
(***************************************************************************)
EXTENDS Integers, Sequences, FiniteSets, TLC

VARIABLES
  variant,  \* which of the four structs generated by impl_max! the handle is
  handle,   \* "live", "dropped" (consumed by a failed call) or "released"
  mode,     \* the PhantomData<MODE> tag of the live handle, NoMode otherwise
  writer,   \* who owns the transport W: "handle", "caller" or "dropped"
  writes,   \* every call of writer.write so far, oldest first
  calls,    \* number of mode and data operations invoked so far
  answer,   \* what the transport answered to the last write
  ret,      \* what the last operation returned
  fails,    \* number of writes the transport has failed so far
  enc       \* the encoder call under test (specification SpecEnc)

vars == << variant, handle, mode, writer, writes, calls, answer, ret, fails, enc >>

devVars == << variant, handle, mode, writer, writes, calls, answer, ret, fails >>

\* ------------------------------------------------------------------ bounds
\* longest sequence of operations explored with arbitrary arguments
MaxOps == 3
\* most writes the transport fails in one run
MaxFails == 1

\* ------------------------------------------------------- program constants
U8Max == 255
U16Max == 65535
DataMax == 4095
ControlMax == 15

Variants == {"Max5532", "Max5533", "Max5534", "Max5535"}
Modes == {"Shutdown", "Standby", "Normal"}
NoMode == "NoMode"
NoArg == "NoArg"
NoValue == -1

\* enum Vref and its discriminants
Vref == {"M1214", "M1940", "M2425", "M3885"}

VrefAsU8(vref) ==
  CASE vref = "M1214" -> 0
    [] vref = "M1940" -> 1
    [] vref = "M2425" -> 2
    [] vref = "M3885" -> 3

\* the value a caller passes as `value: u16` outside the doctest: one beyond
\* 12 bits (the doctest passes values within)
Values == {65535}

\* values W::Error can take
Errors == {"E1", "E2"}
Outcomes == {"Ok"} \cup Errors

\* ------------------------------------------------------- integer operators
Pow2(n) == 2 ^ n

\* u8 << n : the bits shifted out of the byte are lost
Shl8(x, n) == (x * Pow2(n)) % (U8Max + 1)

Shr(x, n) == x \div Pow2(n)

\* `as u8`
AsU8(x) == x % (U8Max + 1)

RECURSIVE BitAnd(_, _)
BitAnd(a, b) ==
  IF a = 0 \/ b = 0 THEN 0
  ELSE (a % 2) * (b % 2) + 2 * BitAnd(a \div 2, b \div 2)

RECURSIVE BitOr(_, _)
BitOr(a, b) ==
  IF a = 0 THEN b
  ELSE IF b = 0 THEN a
  ELSE (IF a % 2 = 1 \/ b % 2 = 1 THEN 1 ELSE 0) + 2 * BitOr(a \div 2, b \div 2)

\* ----------------------------------------------------------------- encoders
\* command_bytes without the `>> 8`: the low nibble of the value is packed
command_bytes_noshift(control_bits, data_bits0) ==
  LET data_bits == IF data_bits0 > DataMax THEN DataMax ELSE data_bits0
  IN << BitOr(Shl8(control_bits, 4), BitAnd(AsU8(data_bits), 15)),
        AsU8(data_bits) >>

\* command_bytes masking the value to 12 bits instead of saturating it
command_bytes_mask(control_bits, data_bits0) ==
  LET data_bits == data_bits0 % (DataMax + 1)
  IN << BitOr(Shl8(control_bits, 4), BitAnd(AsU8(Shr(data_bits, 8)), 15)),
        AsU8(data_bits) >>

command_bytes(control_bits, data_bits0) ==
  LET data_bits == IF data_bits0 > DataMax THEN DataMax ELSE data_bits0
  IN << BitOr(Shl8(control_bits, 4), BitAnd(AsU8(Shr(data_bits, 8)), 15)),
        AsU8(data_bits) >>

\* vref_command_bytes without the `<< 2`: the code lands in bits 0-1
vref_command_bytes_noshift(control_bits, vref) ==
  << BitOr(Shl8(control_bits, 4), VrefAsU8(vref)), 0 >>

vref_command_bytes(control_bits, vref) ==
  << BitOr(Shl8(control_bits, 4), Shl8(VrefAsU8(vref), 2)), 0 >>

\* ------------------------------------------------------ variant capabilities
\* the variants for which impl_into_mode! takes the @with_vref arm
WithVref == {"Max5533", "Max5535"}

\* into_standby and the Standby impl generated for every variant
WithStandby_all == {"Max5532", "Max5533", "Max5534", "Max5535"}

\* the variants for which impl_into_mode! generates into_standby and
\* impl_standby_shutdown! generates the Standby impl
WithStandby == {"Max5533", "Max5535"}

\* what a mode-entry function of the variant accepts as argument
ModeArgs(max_ty) == IF max_ty \in WithVref THEN Vref ELSE {NoArg}

\* the command a mode-entry function of the variant writes
IntoModeBytes(max_ty, control_bits, arg) ==
  IF max_ty \in WithVref
  THEN vref_command_bytes(control_bits, arg)
  ELSE command_bytes(control_bits, 0)

\* --------------------------------------------------- the documented usage
\* the doctest of impl_max!: the calls made on a new device, in order
DocOps ==
  [max_ty \in Variants |->
  LET vref == IF max_ty \in WithVref THEN "M1940" ELSE NoArg
  IN << [op |-> "into_normal",    vref |-> vref,  value |-> NoValue],
        [op |-> "input_a",        vref |-> NoArg, value |-> 1234],
        [op |-> "input_b",        vref |-> NoArg, value |-> 4095],
        [op |-> "dac_ab",         vref |-> NoArg, value |-> NoValue],
        [op |-> "input_a_dac_ab", vref |-> NoArg, value |-> 1234],
        [op |-> "input_b_dac_ab", vref |-> NoArg, value |-> 4095],
        [op |-> "into_shutdown",  vref |-> vref,  value |-> NoValue] >>]

\* the values the doctest passes
DocValues == {1234, 4095}

\* the SpiMock expectations of the doctest
DocVrefValue(max_ty) == IF max_ty \in WithVref THEN 4 ELSE 0

DocWrites ==
  [max_ty \in Variants |->
  << << 208 + DocVrefValue(max_ty), 0 >>,
     << 20, 210 >>,
     << 47, 255 >>,
     << 128, 0 >>,
     << 148, 210 >>,
     << 175, 255 >>,
     << 224 + DocVrefValue(max_ty), 0 >> >>]

\* the calls so far are the first calls of the doctest, all successful
OnDoc ==
  /\ calls = Len(writes)
  /\ calls <= Len(DocOps[variant])
  /\ \A i \in 1..calls :
       /\ writes[i].op = DocOps[variant][i].op
       /\ writes[i].vref = DocOps[variant][i].vref
       /\ writes[i].value = DocOps[variant][i].value
       /\ writes[i].ok

\* the doctest's next call is op(vref) or op(value)
DocNext(op, vref, value) ==
  /\ calls < Len(DocOps[variant])
  /\ DocOps[variant][calls + 1] = [op |-> op, vref |-> vref, value |-> value]
  /\ OnDoc

\* exploration bound: any MaxOps calls with values of Values, and the
\* doctest to its end
CanCall(op, vref, value) ==
  \/ calls < MaxOps /\ value \in Values \cup {NoValue}
  \/ DocNext(op, vref, value)

\* ------------------------------------------------------------ the transport
\* a write that is tried a second time when it fails
Write_retry(op, vref, value, from, tag, bytes, res) ==
  LET entry == [op |-> op, vref |-> vref, value |-> value,
                from |-> from, tag |-> tag,
                bytes |-> bytes, ok |-> (res = "Ok")]
  IN /\ res # "Ok" => fails < MaxFails
     /\ answer' = res
     /\ fails' = IF res = "Ok" THEN fails ELSE fails + 1
     /\ writes' = IF res = "Ok" THEN Append(writes, entry)
                  ELSE Append(Append(writes, entry), entry)

\* self.writer.write(&bytes) called by `op` on a handle tagged `tag`,
\* invoked by the caller on a handle tagged `from`; the transport answers res
Write(op, vref, value, from, tag, bytes, res) ==
  /\ res # "Ok" => fails < MaxFails
  /\ answer' = res
  /\ fails' = IF res = "Ok" THEN fails ELSE fails + 1
  /\ writes' = Append(writes, [op |-> op, vref |-> vref, value |-> value,
                               from |-> from, tag |-> tag,
                               bytes |-> bytes, ok |-> (res = "Ok")])

\* ------------------------------------------------------------- construction
Init ==
  /\ variant \in Variants
  /\ handle = "live"
  /\ mode = "Shutdown"
  /\ writer = "handle"
  /\ writes = << >>
  /\ calls = 0
  /\ answer = "none"
  /\ ret = "none"
  /\ fails = 0
  /\ enc = [pc |-> "idle"]

\* --------------------------------------------------------------- operations
\* release taking &self: the writer is handed out and the handle stays
release_by_ref ==
  /\ handle = "live"
  /\ mode = "Shutdown"
  /\ writer' = "caller"
  /\ ret' = "writer"
  /\ UNCHANGED << variant, handle, mode, writes, calls, answer, fails, enc >>

\* release generated in the impl for every MODE
release_any_mode ==
  /\ handle = "live"
  /\ handle' = "released"
  /\ mode' = NoMode
  /\ writer' = "caller"
  /\ ret' = "writer"
  /\ UNCHANGED << variant, writes, calls, answer, fails, enc >>

release ==
  /\ handle = "live"
  /\ mode = "Shutdown"
  /\ handle' = "released"
  /\ mode' = NoMode
  /\ writer' = "caller"
  /\ ret' = "writer"
  /\ UNCHANGED << variant, writes, calls, answer, fails, enc >>

\* the in-place operations generated in the Normal impl only
InPlace_normal_only(op, control_bits, data_bits, value, res) ==
  /\ handle = "live"
  /\ mode = "Normal"
  /\ CanCall(op, NoArg, value)
  /\ calls' = calls + 1
  /\ ret' = res
  /\ Write(op, NoArg, value, mode, mode, command_bytes(control_bits, data_bits), res)
  /\ UNCHANGED << variant, handle, mode, writer, enc >>

\* an in-place operation that gives up the handle when the write fails
InPlace_drop_on_error(op, control_bits, data_bits, value, res) ==
  /\ handle = "live"
  /\ CanCall(op, NoArg, value)
  /\ calls' = calls + 1
  /\ ret' = res
  /\ Write(op, NoArg, value, mode, mode, command_bytes(control_bits, data_bits), res)
  /\ IF res = "Ok"
     THEN UNCHANGED << handle, mode, writer >>
     ELSE /\ handle' = "dropped"
          /\ mode' = NoMode
          /\ writer' = "dropped"
  /\ UNCHANGED << variant, enc >>

\* input_a / input_b (&mut self, any MODE) and the four loads of the
\* Normal impl (&mut self): one write, the result of the write is returned
InPlace(op, control_bits, data_bits, value, res) ==
  /\ handle = "live"
  /\ CanCall(op, NoArg, value)
  /\ calls' = calls + 1
  /\ ret' = res
  /\ Write(op, NoArg, value, mode, mode, command_bytes(control_bits, data_bits), res)
  /\ UNCHANGED << variant, handle, mode, writer, enc >>

input_a(value, res) == InPlace("input_a", 1, value, value, res)

\* input_b writing the control code of input_a
input_b_0001(value, res) == InPlace("input_b", 1, value, value, res)

input_b(value, res) == InPlace("input_b", 2, value, value, res)

dac_ab(res) ==
  /\ mode = "Normal"
  /\ InPlace("dac_ab", 8, 0, NoValue, res)

input_a_dac_ab(value, res) ==
  /\ mode = "Normal"
  /\ InPlace("input_a_dac_ab", 9, value, value, res)

input_b_dac_ab(value, res) ==
  /\ mode = "Normal"
  /\ InPlace("input_b_dac_ab", 10, value, value, res)

\* input_ab_dac_ab writing 0b1110 for 0b1111
input_ab_dac_ab_1110(value, res) ==
  /\ mode = "Normal"
  /\ InPlace("input_ab_dac_ab", 14, value, value, res)

input_ab_dac_ab(value, res) ==
  /\ mode = "Normal"
  /\ InPlace("input_ab_dac_ab", 15, value, value, res)

\* a mode-entry function that discards the result of the write
IntoMode_ignore_error(fn_name, mode_ty, control_bits, arg, res) ==
  /\ handle = "live"
  /\ arg \in ModeArgs(variant)
  /\ CanCall(fn_name, arg, NoValue)
  /\ calls' = calls + 1
  /\ ret' = "Ok"
  /\ Write(fn_name, arg, NoValue, mode, mode,
           IntoModeBytes(variant, control_bits, arg), res)
  /\ handle' = "live"
  /\ mode' = mode_ty
  /\ writer' = "handle"
  /\ UNCHANGED << variant, enc >>

\* a mode-entry function that builds the handle of the new mode first and
\* writes through it
IntoMode_tag_first(fn_name, mode_ty, control_bits, arg, res) ==
  /\ handle = "live"
  /\ arg \in ModeArgs(variant)
  /\ CanCall(fn_name, arg, NoValue)
  /\ calls' = calls + 1
  /\ ret' = res
  /\ Write(fn_name, arg, NoValue, mode, mode_ty,
           IntoModeBytes(variant, control_bits, arg), res)
  /\ IF res = "Ok"
     THEN /\ handle' = "live"
          /\ mode' = mode_ty
          /\ writer' = "handle"
     ELSE /\ handle' = "dropped"
          /\ mode' = NoMode
          /\ writer' = "dropped"
  /\ UNCHANGED << variant, enc >>

\* impl_into_mode!: fn(mut self[, vref]) -> Result<$max_ty<W, $mode_ty>, _>
\* the write is made through self; `?` drops self (and its writer) on error
IntoMode(fn_name, mode_ty, control_bits, arg, res) ==
  /\ handle = "live"
  /\ arg \in ModeArgs(variant)
  /\ CanCall(fn_name, arg, NoValue)
  /\ calls' = calls + 1
  /\ ret' = res
  /\ Write(fn_name, arg, NoValue, mode, mode,
           IntoModeBytes(variant, control_bits, arg), res)
  /\ IF res = "Ok"
     THEN /\ handle' = "live"
          /\ mode' = mode_ty
          /\ writer' = "handle"
     ELSE /\ handle' = "dropped"
          /\ mode' = NoMode
          /\ writer' = "dropped"
  /\ UNCHANGED << variant, enc >>

into_normal(arg, res) == IntoMode("into_normal", "Normal", 13, arg, res)

\* into_shutdown returning the handle type of into_normal
into_shutdown_to_normal(arg, res) ==
  IntoMode("into_shutdown", "Normal", 14, arg, res)

into_shutdown(arg, res) == IntoMode("into_shutdown", "Shutdown", 14, arg, res)

\* into_standby writing the control code of into_normal
into_standby_1101(arg, res) ==
  /\ mode = "Normal"
  /\ variant \in WithStandby
  /\ IntoMode("into_standby", "Standby", 13, arg, res)

\* into_standby generated in the impl for every MODE
into_standby_any_mode(arg, res) ==
  /\ variant \in WithStandby
  /\ IntoMode("into_standby", "Standby", 12, arg, res)

into_standby(arg, res) ==
  /\ mode = "Normal"
  /\ variant \in WithStandby
  /\ IntoMode("into_standby", "Standby", 12, arg, res)

\* a consuming load that hands back the handle under its old tag
Inner_old_tag(op, control_bits, data_bits, value, res) ==
  /\ handle = "live"
  /\ \/ mode = "Shutdown"
     \/ mode = "Standby" /\ variant \in WithStandby
  /\ CanCall(op, NoArg, value)
  /\ calls' = calls + 1
  /\ ret' = res
  /\ Write(op, NoArg, value, mode, "Normal",
           command_bytes(control_bits, data_bits), res)
  /\ IF res = "Ok"
     THEN /\ handle' = "live"
          /\ mode' = mode
          /\ writer' = "handle"
     ELSE /\ handle' = "dropped"
          /\ mode' = NoMode
          /\ writer' = "dropped"
  /\ UNCHANGED << variant, enc >>

\* impl_standby_shutdown!(@inner): fn(self, ..) -> Result<$max_ty<W, Normal>, _>
\* self.writer is moved into max_553x, tagged Normal, which makes the write;
\* `?` drops max_553x (and its writer) on error
Inner(op, control_bits, data_bits, value, res) ==
  /\ handle = "live"
  /\ \/ mode = "Shutdown"
     \/ mode = "Standby" /\ variant \in WithStandby
  /\ CanCall(op, NoArg, value)
  /\ calls' = calls + 1
  /\ ret' = res
  /\ Write(op, NoArg, value, mode, "Normal",
           command_bytes(control_bits, data_bits), res)
  /\ IF res = "Ok"
     THEN /\ handle' = "live"
          /\ mode' = "Normal"
          /\ writer' = "handle"
     ELSE /\ handle' = "dropped"
          /\ mode' = NoMode
          /\ writer' = "dropped"
  /\ UNCHANGED << variant, enc >>

dac_ab_inner(res) == Inner("dac_ab", 8, 0, NoValue, res)

input_a_dac_ab_inner(value, res) == Inner("input_a_dac_ab", 9, value, value, res)

input_b_dac_ab_inner(value, res) == Inner("input_b_dac_ab", 10, value, value, res)

input_ab_dac_ab_inner(value, res) == Inner("input_ab_dac_ab", 15, value, value, res)

Next ==
  \/ release
  \/ \E value \in Values \cup DocValues, res \in Outcomes : input_a(value, res)
  \/ \E value \in Values \cup DocValues, res \in Outcomes : input_b(value, res)
  \/ \E arg \in Vref \cup {NoArg}, res \in Outcomes : into_normal(arg, res)
  \/ \E arg \in Vref \cup {NoArg}, res \in Outcomes : into_shutdown(arg, res)
  \/ \E arg \in Vref \cup {NoArg}, res \in Outcomes : into_standby(arg, res)
  \/ \E res \in Outcomes : dac_ab(res)
  \/ \E value \in Values \cup DocValues, res \in Outcomes : input_a_dac_ab(value, res)
  \/ \E value \in Values \cup DocValues, res \in Outcomes : input_b_dac_ab(value, res)
  \/ \E value \in Values \cup DocValues, res \in Outcomes : input_ab_dac_ab(value, res)
  \/ \E res \in Outcomes : dac_ab_inner(res)
  \/ \E value \in Values \cup DocValues, res \in Outcomes : input_a_dac_ab_inner(value, res)
  \/ \E value \in Values \cup DocValues, res \in Outcomes : input_b_dac_ab_inner(value, res)
  \/ \E value \in Values \cup DocValues, res \in Outcomes : input_ab_dac_ab_inner(value, res)

Spec == Init /\ [][Next]_vars

\* ------------------------------------------------- the encoders on their own
\* a caller evaluates one encoder on one input
InitEnc ==
  /\ variant = "Max5532"
  /\ handle = "live"
  /\ mode = "Shutdown"
  /\ writer = "handle"
  /\ writes = << >>
  /\ calls = 0
  /\ answer = "none"
  /\ ret = "none"
  /\ fails = 0
  /\ \/ enc \in [pc : {"call"}, fn : {"command_bytes"},
                  control_bits : 0..ControlMax, data_bits : 0..U16Max,
                  vref : {NoArg}, out : {<< >>}]
     \/ enc \in [pc : {"call"}, fn : {"vref_command_bytes"},
                  control_bits : 0..ControlMax, data_bits : {NoValue},
                  vref : Vref, out : {<< >>}]

call_command_bytes ==
  /\ enc.pc = "call"
  /\ enc.fn = "command_bytes"
  /\ enc' = [enc EXCEPT !.pc = "done",
                        !.out = command_bytes(enc.control_bits, enc.data_bits)]
  /\ UNCHANGED devVars

call_vref_command_bytes ==
  /\ enc.pc = "call"
  /\ enc.fn = "vref_command_bytes"
  /\ enc' = [enc EXCEPT !.pc = "done",
                        !.out = vref_command_bytes(enc.control_bits, enc.vref)]
  /\ UNCHANGED devVars

NextEnc == call_command_bytes \/ call_vref_command_bytes

SpecEnc == InitEnc /\ [][NextEnc]_vars

TypeOK ==
  /\ variant \in Variants
  /\ handle \in {"live", "dropped", "released"}
  /\ mode \in Modes \cup {NoMode}
  /\ writer \in {"handle", "caller", "dropped"}
  /\ calls \in Nat
  /\ fails \in 0..MaxFails
  /\ answer \in Outcomes \cup {"none"}
  /\ ret \in Outcomes \cup {"none", "writer"}

\* ------------------------------------------------------------ reading a log
LastWrite == writes[Len(writes)]

\* the control nibble and the 12-bit data field a command carries
ControlOf(bytes) == bytes[1] \div 16
DataOf(bytes) == (bytes[1] % 16) * 256 + bytes[2]

AllOk == \A i \in 1..Len(writes) : writes[i].ok

\* the mode of the chip after it received a command, by the data sheet
ChipAfter(chip, control) ==
  IF control \in {13, 8, 9, 10, 15} THEN "Normal"
  ELSE IF control = 12 THEN "Standby"
  ELSE IF control = 14 THEN "Shutdown"
  ELSE chip

RECURSIVE ChipMode(_)
ChipMode(log) ==
  IF log = << >> THEN "Shutdown"
  ELSE ChipAfter(ChipMode(SubSeq(log, 1, Len(log) - 1)),
                 ControlOf(log[Len(log)].bytes))

\* the reference codes of the data sheet
RefCode == [M1214 |-> 0, M1940 |-> 1, M2425 |-> 2, M3885 |-> 3]

\* ------------------------------------------------------------------- claims

\* C1: while every write has succeeded, the mode tag of the live handle is
\* the mode the chip is in after the commands written so far (Shutdown at
\* first; 1101 and the loads 1000/1001/1010/1111 give Normal, 1100 Standby,
\* 1110 Shutdown, 0001/0010 no change), for every variant.
C1_TagMatchesChip ==
  (handle = "live" /\ AllOk) => mode = ChipMode(writes)

C1_Witness ==
  /\ handle = "live"
  /\ AllOk
  /\ Len(writes) = 3
  /\ writes[2].op = "into_standby"
  /\ writes[3].op = "input_b_dac_ab"
  /\ mode = "Normal"

\* C2: a DAC load called on a Shutdown handle (or a Standby handle of
\* Max5533/Max5535) makes one write with control 1000/1001/1010/1111 and,
\* when the write succeeds, leaves a Normal handle; called on a Normal handle
\* it makes one write with the same control and the handle stays Normal.
LoadControl ==
  [dac_ab |-> 8, input_a_dac_ab |-> 9, input_b_dac_ab |-> 10,
   input_ab_dac_ab |-> 15]

C2_OneWrite(op) ==
  /\ Len(writes') = Len(writes) + 1
  /\ writes'[Len(writes')].op = op
  /\ ControlOf(writes'[Len(writes')].bytes) = LoadControl[op]

C2_FromLow(op) ==
  /\ mode \in {"Shutdown", "Standby"}
  /\ mode = "Standby" => variant \in {"Max5533", "Max5535"}
  /\ C2_OneWrite(op)
  /\ answer' = "Ok" => (handle' = "live" /\ mode' = "Normal")
  /\ variant' = variant

C2_FromNormal(op) ==
  /\ mode = "Normal"
  /\ C2_OneWrite(op)
  /\ handle' = "live"
  /\ mode' = "Normal"
  /\ variant' = variant

C2_Step ==
  /\ (\E r \in Outcomes : dac_ab_inner(r)) => C2_FromLow("dac_ab")
  /\ (\E v \in Values \cup DocValues, r \in Outcomes : input_a_dac_ab_inner(v, r))
       => C2_FromLow("input_a_dac_ab")
  /\ (\E v \in Values \cup DocValues, r \in Outcomes : input_b_dac_ab_inner(v, r))
       => C2_FromLow("input_b_dac_ab")
  /\ (\E v \in Values \cup DocValues, r \in Outcomes : input_ab_dac_ab_inner(v, r))
       => C2_FromLow("input_ab_dac_ab")
  /\ (\E r \in Outcomes : dac_ab(r)) => C2_FromNormal("dac_ab")
  /\ (\E v \in Values \cup DocValues, r \in Outcomes : input_a_dac_ab(v, r))
       => C2_FromNormal("input_a_dac_ab")
  /\ (\E v \in Values \cup DocValues, r \in Outcomes : input_b_dac_ab(v, r))
       => C2_FromNormal("input_b_dac_ab")
  /\ (\E v \in Values \cup DocValues, r \in Outcomes : input_ab_dac_ab(v, r))
       => C2_FromNormal("input_ab_dac_ab")

C2_DacLoads == [][C2_Step]_vars

C2_Witness ==
  /\ Len(writes) = 3
  /\ AllOk
  /\ writes[2].op = "into_standby"
  /\ writes[3].op = "input_ab_dac_ab"
  /\ writes[3].from = "Standby"
  /\ ControlOf(writes[3].bytes) = 15
  /\ handle = "live"
  /\ mode = "Normal"

\* C3: on Max5533/Max5535, new, into_normal(r1), into_standby(r2),
\* into_shutdown(r3) with every write succeeding makes exactly three writes,
\* [(1101 << 4) | (code(r1) << 2), 0], [(1100 << 4) | (code(r2) << 2), 0],
\* [(1110 << 4) | (code(r3) << 2), 0], and the handle is Normal, Standby,
\* Shutdown after the first, second, third call.
C3_Ops == << "into_normal", "into_standby", "into_shutdown" >>
C3_Controls == << 13, 12, 14 >>
C3_Modes == << "Normal", "Standby", "Shutdown" >>

C3_Prefix(k) ==
  /\ variant \in {"Max5533", "Max5535"}
  /\ handle # "released"
  /\ calls = k
  /\ Len(writes) >= k
  /\ \A i \in 1..k : writes[i].op = C3_Ops[i] /\ writes[i].ok

C3_ModeCycle ==
  \A k \in 1..3 :
    C3_Prefix(k) =>
      /\ Len(writes) = k
      /\ \A i \in 1..k :
           /\ writes[i].vref \in Vref
           /\ writes[i].bytes =
                << C3_Controls[i] * 16 + RefCode[writes[i].vref] * 4, 0 >>
      /\ handle = "live"
      /\ mode = C3_Modes[k]

C3_Witness ==
  /\ C3_Prefix(3)
  /\ writes[1].vref = "M3885"
  /\ writes[2].vref = "M1940"
  /\ writes[3].vref = "M2425"
  /\ mode = "Shutdown"

\* C4: on Max5532/Max5534 the handle is never Standby, no command with
\* control 1100 is written, and into_normal / into_shutdown take no reference
\* argument: each writes exactly [control << 4, 0], bits 2-3 of byte 0 clear.
C4_NoStandby ==
  variant \in {"Max5532", "Max5534"} =>
    /\ handle = "live" => mode \in {"Shutdown", "Normal"}
    /\ mode # "Standby"
    /\ \A i \in 1..Len(writes) :
         /\ writes[i].tag # "Standby"
         /\ ControlOf(writes[i].bytes) # 12
         /\ writes[i].op # "into_standby"
         /\ writes[i].op = "into_normal" =>
              (writes[i].vref = NoArg /\ writes[i].bytes = << 208, 0 >>)
         /\ writes[i].op = "into_shutdown" =>
              (writes[i].vref = NoArg /\ writes[i].bytes = << 224, 0 >>)
         /\ writes[i].op \in {"into_normal", "into_shutdown"} =>
              (writes[i].bytes[1] \div 4) % 4 = 0

C4_Witness ==
  /\ variant = "Max5534"
  /\ Len(writes) = 3
  /\ AllOk
  /\ writes[1].op = "into_normal"
  /\ writes[2].op = "into_shutdown"
  /\ writes[3].op = "into_normal"
  /\ mode = "Normal"

\* C5: when the write fails in into_normal, into_shutdown, into_standby or
\* in a DAC load called on a Shutdown or Standby handle, the call returns the
\* error the transport gave, no handle is left (the old one is consumed, no
\* new one is made), and Ok is never returned after a failed write.
C5_Transition(r) ==
  \/ \E a \in Vref \cup {NoArg} :
       into_normal(a, r) \/ into_shutdown(a, r) \/ into_standby(a, r)
  \/ dac_ab_inner(r)
  \/ \E v \in Values \cup DocValues :
       \/ input_a_dac_ab_inner(v, r)
       \/ input_b_dac_ab_inner(v, r)
       \/ input_ab_dac_ab_inner(v, r)

C5_Step ==
  \A r \in Outcomes :
    C5_Transition(r) =>
      /\ answer' = r
      /\ ret' = r
      /\ r # "Ok" => /\ handle' = "dropped"
                     /\ mode' = NoMode
                     /\ writer' = "dropped"
      /\ ret' = "Ok" => answer' = "Ok"

C5_FailedTransition == [][C5_Step]_vars

C5_Witness ==
  /\ Len(writes) = 3
  /\ LastWrite.op = "input_a_dac_ab"
  /\ LastWrite.from = "Standby"
  /\ ~LastWrite.ok
  /\ answer = "E2"
  /\ ret = "E2"
  /\ handle = "dropped"

\* C6: input_a and input_b can be called in every mode of every variant;
\* each makes one write with control 0001 / 0010 whose data field is the
\* value (4095 for a value beyond 12 bits), and leaves the mode tag and the
\* variant as they were whether the write succeeds or fails.
C6_Enabled ==
  \A v \in Values, r \in Outcomes :
    (handle = "live" /\ calls < MaxOps /\ (r # "Ok" => fails < MaxFails)) =>
      (ENABLED input_a(v, r)) /\ (ENABLED input_b(v, r))

C6_Effect(control, v, r) ==
  /\ Len(writes') = Len(writes) + 1
  /\ ControlOf(writes'[Len(writes')].bytes) = control
  /\ DataOf(writes'[Len(writes')].bytes) = (IF v > 4095 THEN 4095 ELSE v)
  /\ handle = "live"
  /\ handle' = "live"
  /\ mode' = mode
  /\ variant' = variant
  /\ ret' = r

C6_Step ==
  \A v \in Values \cup DocValues, r \in Outcomes :
    /\ input_a(v, r) => C6_Effect(1, v, r)
    /\ input_b(v, r) => C6_Effect(2, v, r)

C6_InputLoads == [] C6_Enabled /\ [][C6_Step]_vars

C6_Witness ==
  /\ Len(writes) = 3
  /\ LastWrite.op = "input_b"
  /\ LastWrite.from = "Standby"
  /\ LastWrite.value = 65535
  /\ ~LastWrite.ok
  /\ handle = "live"
  /\ mode = "Standby"

\* C7: the number of write calls is the number of mode and data operations
\* invoked (new and release make none), every write carries two bytes, the
\* writes are in the order of the calls, and a call whose write fails has
\* made one attempt.
C7_Count ==
  /\ calls = Len(writes)
  /\ \A i \in 1..Len(writes) :
       /\ Len(writes[i].bytes) = 2
       /\ writes[i].bytes[1] \in 0..255
       /\ writes[i].bytes[2] \in 0..255

C7_Step ==
  /\ release => (writes' = writes /\ calls' = calls)
  /\ calls' # calls =>
       /\ calls' = calls + 1
       /\ Len(writes') = Len(writes) + 1
       /\ SubSeq(writes', 1, Len(writes)) = writes
  /\ calls' = calls => writes' = writes

C7_OneWritePerCall == [] C7_Count /\ [][C7_Step]_vars

C7_Witness ==
  /\ calls = 3
  /\ Len(writes) = 3
  /\ ~writes[2].ok
  /\ writes[3].ok
  /\ handle = "released"

\* C8: every operation writes its data-sheet control code whatever mode it
\* is called in (input_a 0001, input_b 0010, dac_ab 1000 with data 0,
\* input_a_dac_ab 1001, input_b_dac_ab 1010, input_ab_dac_ab 1111,
\* into_standby 1100, into_normal 1101, into_shutdown 1110), and the
\* documented sequence writes [0xD0|v,0], [0x14,0xD2], [0x2F,0xFF], [0x80,0],
\* [0x94,0xD2], [0xAF,0xFF], [0xE0|v,0] in that order (v = 4 with M1940 on
\* Max5533/Max5535, 0 on Max5532/Max5534).
OpControl ==
  [input_a |-> 1, input_b |-> 2, dac_ab |-> 8, input_a_dac_ab |-> 9,
   input_b_dac_ab |-> 10, input_ab_dac_ab |-> 15, into_standby |-> 12,
   into_normal |-> 13, into_shutdown |-> 14]

C8_ControlCodes ==
  /\ \A i \in 1..Len(writes) :
       /\ ControlOf(writes[i].bytes) = OpControl[writes[i].op]
       /\ writes[i].op = "dac_ab" => DataOf(writes[i].bytes) = 0
  /\ OnDoc => \A i \in 1..Len(writes) : writes[i].bytes = DocWrites[variant][i]

C8_Witness ==
  /\ OnDoc
  /\ calls = 7
  /\ variant = "Max5535"
  /\ LastWrite.bytes = << 228, 0 >>
  /\ mode = "Shutdown"

\* C9: for a 4-bit control and a value in 0..4095, command_bytes gives
\* [b0, b1] with ((b0 & 0xF) << 8) | b1 = value and b0 >> 4 = control;
\* (0001, 1234) gives [0x14, 0xD2] and (0010, 4095) gives [0x2F, 0xFF].
C9_RoundTrip ==
  (enc.pc = "done" /\ enc.fn = "command_bytes" /\ enc.data_bits <= 4095) =>
    /\ Len(enc.out) = 2
    /\ (enc.out[1] % 16) * 256 + enc.out[2] = enc.data_bits
    /\ enc.out[1] \div 16 = enc.control_bits
    /\ (enc.control_bits = 1 /\ enc.data_bits = 1234) => enc.out = << 20, 210 >>
    /\ (enc.control_bits = 2 /\ enc.data_bits = 4095) => enc.out = << 47, 255 >>

C9_Witness ==
  /\ enc.pc = "done"
  /\ enc.fn = "command_bytes"
  /\ enc.control_bits = 1
  /\ enc.data_bits = 1234
  /\ enc.out = << 20, 210 >>

\* C10: for a 4-bit control and a value in 4096..65535, command_bytes
\* saturates: it gives [(control << 4) | 0x0F, 0xFF], data field 4095, where
\* masking would give value mod 4096, and the control nibble is intact.
C10_Saturates ==
  (enc.pc = "done" /\ enc.fn = "command_bytes" /\ enc.data_bits > 4095) =>
    /\ enc.out = << enc.control_bits * 16 + 15, 255 >>
    /\ (enc.out[1] % 16) * 256 + enc.out[2] = 4095
    /\ enc.out[1] \div 16 = enc.control_bits

C10_Witness ==
  /\ enc.pc = "done"
  /\ enc.fn = "command_bytes"
  /\ enc.control_bits = 9
  /\ enc.data_bits = 4096
  /\ enc.out = << 159, 255 >>
  /\ enc.data_bits % 4096 # 4095

\* C11: for the mode-entry controls 1100, 1101, 1110 and every reference,
\* vref_command_bytes gives byte 0 = (control << 4) | (code << 2) and byte 1
\* = 0, with code 00 for M1214, 01 for M1940, 10 for M2425, 11 for M3885;
\* bits 0-1 of byte 0 are clear and the reference can be read back from bits
\* 2-3, so different references give different commands.
C11_VrefCommand ==
  (/\ enc.pc = "done"
   /\ enc.fn = "vref_command_bytes"
   /\ enc.control_bits \in {12, 13, 14}) =>
    /\ enc.out = << enc.control_bits * 16 + RefCode[enc.vref] * 4, 0 >>
    /\ enc.out[1] % 4 = 0
    /\ (enc.out[1] \div 4) % 4 = RefCode[enc.vref]
    /\ enc.out[1] \div 16 = enc.control_bits

C11_Witness ==
  /\ enc.pc = "done"
  /\ enc.fn = "vref_command_bytes"
  /\ enc.control_bits = 12
  /\ enc.vref = "M3885"
  /\ enc.out = << 204, 0 >>

\* C12: no mode is terminal.  On a live handle some operation can always be
\* called, and with successful writes one call leads from any mode to Normal
\* and to Shutdown, and on Max5533/Max5535 from Normal to Standby; so every
\* mode of the variant is reached from every mode in at most two calls
\* (Shutdown or Standby to Standby goes through Normal).
C12_Can(mode_ty) ==
  ENABLED (/\ \E a \in Vref \cup {NoArg} :
                \/ into_normal(a, "Ok")
                \/ into_shutdown(a, "Ok")
                \/ into_standby(a, "Ok")
           /\ handle' = "live"
           /\ mode' = mode_ty)

C12_NoTerminalMode ==
  (handle = "live" /\ calls < MaxOps) =>
    /\ ENABLED Next
    /\ mode \in Modes
    /\ C12_Can("Normal")
    /\ C12_Can("Shutdown")
    /\ (variant \in {"Max5533", "Max5535"} /\ mode = "Normal") => C12_Can("Standby")

C12_Witness ==
  /\ handle = "live"
  /\ AllOk
  /\ calls = 2
  /\ mode = "Standby"
  /\ C12_Can("Normal")
  /\ C12_Can("Shutdown")

\* C13: at most one handle per transport.  The transport belongs to the
\* handle exactly while the handle lives (new takes it); a mode-changing call
\* consumes the handle and leaves at most one handle with the same transport
\* (none when the write failed); the other calls keep the handle; release
\* ends the handle and gives the transport to the caller; no handle appears
\* once the handle is gone.
C13_Owner ==
  /\ handle = "live" <=> writer = "handle"
  /\ handle = "released" <=> writer = "caller"
  /\ handle = "dropped" <=> writer = "dropped"

C13_KeepsHandle(w) ==
  \/ w.op \in {"input_a", "input_b"}
  \/ w.op \in DOMAIN LoadControl /\ w.from = "Normal"

C13_Step ==
  /\ handle' = "live" => handle = "live"
  /\ writer' = "handle" => writer = "handle"
  /\ variant' = variant
  /\ release => (handle' = "released" /\ writer' = "caller" /\ mode' = NoMode)
  /\ calls' # calls =>
       /\ handle = "live"
       /\ Len(writes') > 0
       /\ IF C13_KeepsHandle(writes'[Len(writes')])
          THEN handle' = "live" /\ writer' = "handle" /\ mode' = mode
          ELSE IF answer' = "Ok"
          THEN handle' = "live" /\ writer' = "handle"
          ELSE handle' = "dropped" /\ writer' = "dropped" /\ mode' = NoMode

C13_OneHandle == [] C13_Owner /\ [][C13_Step]_vars

C13_Witness ==
  /\ calls = 2
  /\ Len(writes) = 2
  /\ writes[1].op = "dac_ab"
  /\ writes[1].from = "Shutdown"
  /\ writes[2].op = "into_shutdown"
  /\ handle = "released"
  /\ writer = "caller"

\* C14 as stated: in every mode-changing call, the consuming loads included,
\* no handle tagged with the new mode exists before the write is called, so
\* the handle that calls write still carries the mode the call was made on.
C14_TagOnlyAfterWrite ==
  \A i \in 1..Len(writes) : writes[i].tag = writes[i].from

\* C14 as amended: into_normal, into_shutdown and into_standby write through
\* the handle with its old tag and build the handle of the new mode after the
\* write returned Ok.  A load called on a Shutdown or Standby handle first
\* moves the writer into a temporary handle tagged Normal and writes through
\* it; that handle is returned when the write succeeds and dropped when it
\* fails.  The caller's handle changes its tag only in a step whose write
\* succeeded.
C14_WriterTag ==
  \A i \in 1..Len(writes) :
    /\ writes[i].op \in {"into_normal", "into_shutdown", "into_standby"} =>
         writes[i].tag = writes[i].from
    /\ writes[i].op \in DOMAIN LoadControl => writes[i].tag = "Normal"
    /\ writes[i].op \in {"input_a", "input_b"} => writes[i].tag = writes[i].from
    /\ (writes[i].tag # writes[i].from /\ ~writes[i].ok) =>
         (i = Len(writes) /\ handle = "dropped")

C14_Step ==
  (mode' # mode /\ mode' \in Modes) =>
    /\ Len(writes') = Len(writes) + 1
    /\ writes'[Len(writes')].ok
    /\ writes'[Len(writes')].from = mode
    /\ answer' = "Ok"

C14_TagFollowsWrite == [] C14_WriterTag /\ [][C14_Step]_vars

C14_Witness ==
  /\ Len(writes) = 3
  /\ writes[2].op = "into_standby"
  /\ writes[2].tag = "Normal"
  /\ writes[3].op = "dac_ab"
  /\ writes[3].from = "Standby"
  /\ writes[3].tag = "Normal"
  /\ ~writes[3].ok
  /\ handle = "dropped"

\* C15: release can be called only on a handle tagged Shutdown.  Whenever
\* release hands the transport back the handle is Shutdown (and, if every
\* write succeeded, the last mode command written is 1110 or none was
\* written); a Normal or Standby handle becomes Shutdown only by a successful
\* into_shutdown write.
RECURSIVE C15_LastModeControl(_)
C15_LastModeControl(log) ==
  IF log = << >> THEN 0
  ELSE IF ControlOf(log[Len(log)].bytes) \in {1, 2}
  THEN C15_LastModeControl(SubSeq(log, 1, Len(log) - 1))
  ELSE ControlOf(log[Len(log)].bytes)

C15_Guard == (ENABLED release) <=> (handle = "live" /\ mode = "Shutdown")

C15_Step ==
  /\ (writer' = "caller" /\ writer # "caller") =>
       /\ handle = "live"
       /\ mode = "Shutdown"
       /\ handle' = "released"
       /\ writes' = writes
       /\ AllOk => C15_LastModeControl(writes) \in {0, 14}
  /\ (mode \in {"Normal", "Standby"} /\ mode' = "Shutdown") =>
       /\ Len(writes') = Len(writes) + 1
       /\ writes'[Len(writes')].op = "into_shutdown"
       /\ ControlOf(writes'[Len(writes')].bytes) = 14
       /\ writes'[Len(writes')].ok

C15_ReleaseInShutdown == [] C15_Guard /\ [][C15_Step]_vars

C15_Witness ==
  /\ handle = "released"
  /\ writer = "caller"
  /\ Len(writes) = 3
  /\ AllOk
  /\ writes[3].op = "into_shutdown"
  /\ writes[3].from = "Standby"

\* C16: into_normal and into_shutdown can be called in every mode (also
\* Normal -> Normal, Shutdown -> Shutdown, Standby -> Normal, Standby ->
\* Shutdown); each makes one write and the mode it leaves depends on the
\* operation alone.  into_standby can be called only on a Normal handle of
\* Max5533/Max5535, so Standby is entered from Normal only and a new device
\* needs at least two successful writes to reach it.
C16_OkWrites == Cardinality({i \in 1..Len(writes) : writes[i].ok})

C16_Enabled ==
  /\ (handle = "live" /\ calls < MaxOps) =>
       /\ \A a \in ModeArgs(variant) :
            (ENABLED into_normal(a, "Ok")) /\ (ENABLED into_shutdown(a, "Ok"))
       /\ (mode = "Normal" /\ variant \in {"Max5533", "Max5535"}) =>
            \A a \in Vref : ENABLED into_standby(a, "Ok")
  /\ (ENABLED (\E a \in Vref \cup {NoArg}, r \in Outcomes : into_standby(a, r))) =>
       (handle = "live" /\ mode = "Normal" /\ variant \in {"Max5533", "Max5535"})
  /\ mode = "Standby" => C16_OkWrites >= 2

C16_Step ==
  /\ \A a \in Vref \cup {NoArg} :
       /\ into_normal(a, answer') =>
            /\ Len(writes') = Len(writes) + 1
            /\ answer' = "Ok" => (handle' = "live" /\ mode' = "Normal")
       /\ into_shutdown(a, answer') =>
            /\ Len(writes') = Len(writes) + 1
            /\ answer' = "Ok" => (handle' = "live" /\ mode' = "Shutdown")
  /\ (mode' = "Standby" /\ mode # "Standby") =>
       /\ mode = "Normal"
       /\ variant \in {"Max5533", "Max5535"}
       /\ Len(writes') = Len(writes) + 1
       /\ writes'[Len(writes')].op = "into_standby"
       /\ writes'[Len(writes')].ok

C16_ModeEntry == [] C16_Enabled /\ [][C16_Step]_vars

C16_Witness ==
  /\ Len(writes) = 3
  /\ AllOk
  /\ writes[1].op = "into_shutdown"
  /\ writes[1].from = "Shutdown"
  /\ writes[2].op = "into_normal"
  /\ writes[3].op = "into_normal"
  /\ writes[3].from = "Normal"
  /\ mode = "Normal"

\* C17: when the write fails in input_a / input_b (any mode) or in a load
\* called on a Normal handle, the transport's error is returned, the handle
\* lives on with its mode tag and variant, and every operation that could be
\* called before can be called afterwards.
C17_InPlace(r) ==
  \/ dac_ab(r)
  \/ \E v \in Values \cup DocValues :
       \/ input_a(v, r)
       \/ input_b(v, r)
       \/ input_a_dac_ab(v, r)
       \/ input_b_dac_ab(v, r)
       \/ input_ab_dac_ab(v, r)

C17_StillEnabled ==
  /\ (ENABLED release) => (ENABLED release)'
  /\ (ENABLED dac_ab("Ok")) => (ENABLED dac_ab("Ok"))'
  /\ (ENABLED dac_ab_inner("Ok")) => (ENABLED dac_ab_inner("Ok"))'
  /\ \A v \in Values :
       /\ (ENABLED input_a(v, "Ok")) => (ENABLED input_a(v, "Ok"))'
       /\ (ENABLED input_b(v, "Ok")) => (ENABLED input_b(v, "Ok"))'
       /\ (ENABLED input_a_dac_ab(v, "Ok")) => (ENABLED input_a_dac_ab(v, "Ok"))'
       /\ (ENABLED input_b_dac_ab(v, "Ok")) => (ENABLED input_b_dac_ab(v, "Ok"))'
       /\ (ENABLED input_ab_dac_ab(v, "Ok")) => (ENABLED input_ab_dac_ab(v, "Ok"))'
       /\ (ENABLED input_a_dac_ab_inner(v, "Ok"))
            => (ENABLED input_a_dac_ab_inner(v, "Ok"))'
       /\ (ENABLED input_b_dac_ab_inner(v, "Ok"))
            => (ENABLED input_b_dac_ab_inner(v, "Ok"))'
       /\ (ENABLED input_ab_dac_ab_inner(v, "Ok"))
            => (ENABLED input_ab_dac_ab_inner(v, "Ok"))'
  /\ \A a \in Vref \cup {NoArg} :
       /\ (ENABLED into_normal(a, "Ok")) => (ENABLED into_normal(a, "Ok"))'
       /\ (ENABLED into_shutdown(a, "Ok")) => (ENABLED into_shutdown(a, "Ok"))'
       /\ (ENABLED into_standby(a, "Ok")) => (ENABLED into_standby(a, "Ok"))'

C17_Step ==
  (answer' \in Errors /\ C17_InPlace(answer')) =>
    /\ ret' = answer'
    /\ ~writes'[Len(writes')].ok
    /\ handle' = "live"
    /\ writer' = "handle"
    /\ mode' = mode
    /\ variant' = variant
    /\ calls' < MaxOps => C17_StillEnabled

C17_FailedInPlace == [][C17_Step]_vars

C17_Witness ==
  /\ Len(writes) = 2
  /\ writes[1].op = "into_normal"
  /\ writes[2].op = "input_ab_dac_ab"
  /\ writes[2].from = "Normal"
  /\ ~writes[2].ok
  /\ answer = "E1"
  /\ ret = "E1"
  /\ handle = "live"
  /\ mode = "Normal"
  /\ ENABLED dac_ab("Ok")

====
